---- MODULE Spec2Model ----
(***************************************************************************)
(* The Account record of ethereumjs-account (src/src/index.ts, first      *)
(* class) and its bridge to a trie: construction from the three input     *)
(* shapes, RLP serialization, getCode/setCode and getStorage/setStorage   *)
(* with their asynchronous store callbacks.                               *)
(*                                                                         *)
(* Byte strings (Buffers) are sequences of 0..255.  The hash constants    *)
(* are the real keccak256 values; the trie roots are the real roots of a  *)
(* secure Merkle-Patricia trie holding the tabulated key/value pairs.      *)
(***************************************************************************)
EXTENDS Integers, Sequences, FiniteSets, TLC

(***************************************************************************)
(* Bounds of the model.                                                    *)
(***************************************************************************)
\* operations (calls and field assignments) issued in one behaviour
MaxOps == 2
\* elements of an array handed to the constructor
MaxArrayLen == 5

(***************************************************************************)
(* Hash constants.                                                         *)
(***************************************************************************)
KECCAK256_NULL ==
  << 197, 210, 70, 1, 134, 247, 35, 60, 146, 126, 125, 178, 220, 199, 3, 192,
     229, 0, 182, 83, 202, 130, 39, 59, 123, 250, 216, 4, 93, 133, 164, 112 >>

KECCAK256_RLP ==
  << 86, 232, 31, 23, 27, 204, 85, 166, 255, 131, 69, 230, 146, 192, 248, 110,
     91, 72, 224, 27, 153, 108, 173, 192, 1, 98, 47, 181, 227, 99, 180, 33 >>

\* keccak256 of code 60
KeccakOfCode1 ==
  << 21, 165, 222, 93, 0, 223, 195, 157, 25, 158, 231, 114, 232, 152, 88, 194,
     4, 209, 213, 69, 222, 9, 45, 181, 74, 52, 92, 115, 3, 148, 38, 7 >>

\* keccak256 of code 6000
KeccakOfCode2 ==
  << 7, 173, 17, 141, 108, 200, 100, 44, 134, 192, 56, 39, 242, 118, 216, 183,
     145, 166, 94, 92, 153, 163, 132, 95, 175, 24, 107, 231, 32, 161, 69, 93 >>

\* secure trie root of {01 -> absent, 02 -> 01}
Root_01 ==
  << 95, 204, 52, 65, 230, 71, 123, 128, 187, 189, 88, 182, 18, 144, 196, 102,
     50, 18, 44, 215, 194, 53, 216, 104, 13, 75, 227, 145, 118, 22, 54, 0 >>

\* secure trie root of {01 -> absent, 02 -> 02}
Root_02 ==
  << 248, 41, 171, 184, 74, 22, 93, 128, 35, 116, 60, 141, 31, 104, 81, 144,
     37, 57, 226, 172, 224, 125, 114, 199, 144, 253, 127, 70, 183, 118, 246, 143 >>

\* secure trie root of {01 -> 01, 02 -> absent}
Root_10 ==
  << 57, 125, 219, 74, 188, 228, 139, 48, 73, 77, 62, 94, 104, 9, 62, 101,
     160, 225, 29, 39, 100, 5, 168, 253, 35, 164, 108, 150, 56, 36, 235, 119 >>

\* secure trie root of {01 -> 01, 02 -> 01}
Root_11 ==
  << 76, 58, 210, 221, 56, 246, 154, 152, 224, 118, 53, 154, 105, 106, 127, 231,
     226, 116, 102, 143, 242, 62, 202, 138, 76, 128, 73, 229, 178, 169, 24, 243 >>

\* secure trie root of {01 -> 01, 02 -> 02}
Root_12 ==
  << 41, 71, 27, 58, 104, 199, 57, 61, 223, 14, 33, 249, 120, 120, 82, 201,
     253, 56, 87, 205, 100, 95, 119, 155, 75, 197, 170, 186, 225, 125, 42, 102 >>

\* secure trie root of {01 -> 02, 02 -> absent}
Root_20 ==
  << 134, 181, 255, 75, 141, 145, 8, 205, 66, 39, 174, 161, 204, 253, 217, 253,
     105, 203, 28, 222, 247, 141, 121, 82, 14, 163, 17, 211, 252, 132, 66, 31 >>

\* secure trie root of {01 -> 02, 02 -> 01}
Root_21 ==
  << 183, 212, 24, 124, 219, 186, 200, 6, 48, 42, 82, 218, 54, 207, 147, 26,
     87, 107, 2, 161, 61, 242, 65, 104, 131, 241, 98, 229, 156, 252, 206, 81 >>

\* secure trie root of {01 -> 02, 02 -> 02}
Root_22 ==
  << 118, 104, 61, 111, 175, 255, 107, 155, 255, 45, 17, 16, 74, 89, 105, 143,
     179, 56, 28, 69, 148, 214, 64, 219, 30, 229, 255, 183, 162, 251, 38, 189 >>

(***************************************************************************)
(* Input domains.                                                          *)
(***************************************************************************)
Recs == {"r1", "r2"}
\* contract code handed to setCode
Codes == {<<>>, <<96>>, <<96, 0>>}
\* storage keys and (non-empty) storage values handed to getStorage/setStorage
Keys == {<<1>>, <<2>>}
Vals == {<<1>>, <<2>>}
\* every operation issued may have its store call in flight
Slots == 1..MaxOps

Zero32 == [i \in 1..32 |-> 0]
Ff32 == [i \in 1..32 |-> 255]

(***************************************************************************)
(* ethereumjs-util: keccak256 and toBuffer.                                *)
(***************************************************************************)
keccak256(b) ==
  CASE b = <<>> -> KECCAK256_NULL
    [] b = <<96>> -> KeccakOfCode1
    [] b = <<96, 0>> -> KeccakOfCode2

\* JavaScript values handed to the record: Buffer, number, 0x-hex string
\* (b holds its hex digits), the empty string, undefined, and an array of
\* such values (what rlp.decode gives for a list inside a list).
Buf(b) == [t |-> "buffer", b |-> b, n |-> 0]
List(items) == [t |-> "array", b |-> <<>>, n |-> 0, items |-> items]
Num(n) == [t |-> "number", b |-> <<>>, n |-> n]
Hex(h) == [t |-> "hexstring", b |-> h, n |-> 0]
EmptyStr == [t |-> "emptystring", b |-> <<>>, n |-> 0]
Undefined == [t |-> "undefined", b |-> <<>>, n |-> 0]

Truthy(v) ==
  CASE v.t = "buffer" -> TRUE
    [] v.t = "number" -> v.n # 0
    [] v.t = "hexstring" -> TRUE
    [] v.t = "emptystring" -> FALSE
    [] v.t = "undefined" -> FALSE
    [] v.t = "array" -> TRUE

\* n.toString(16), a character of the text being the value of its hex
\* digit; the sign of a negative number is no hex digit and is written 16
RECURSIVE NibblesOf(_)
NibblesOf(n) ==
  IF n < 0 THEN <<16>> \o NibblesOf(0 - n)
  ELSE IF n < 16 THEN <<n>>
  ELSE NibblesOf(n \div 16) \o <<n % 16>>

padToEven(h) == IF Len(h) % 2 = 1 THEN <<0>> \o h ELSE h

\* Buffer.from(h, 'hex'): a byte for every pair of hex digits, up to the
\* first pair that holds a character that is no hex digit
BytesOfNibbles(h) ==
  LET bad == {i \in 1..(Len(h) \div 2) : h[2 * i - 1] > 15 \/ h[2 * i] > 15}
      pairs == IF bad = {} THEN Len(h) \div 2
               ELSE (CHOOSE i \in bad : \A j \in bad : i <= j) - 1
  IN [i \in 1..pairs |-> h[2 * i - 1] * 16 + h[2 * i]]

(***************************************************************************)
(* Buffer.from(array): every element is converted to a number and stored   *)
(* modulo 256.  A number is itself and undefined is NaN, which counts as   *)
(* 0; every other element is first converted to a string (a string is      *)
(* itself, a Buffer its bytes read as text, an array its elements' strings *)
(* joined by ","), and the string is read as a numeric literal; a string   *)
(* that is none is NaN.  Strings are sequences of bytes here; a byte above *)
(* 127 is part of no numeric literal and matters only as white space.      *)
(***************************************************************************)
\* String(n) of a whole number
RECURSIVE DecimalString(_)
DecimalString(n) ==
  IF n < 0 THEN <<45>> \o DecimalString(0 - n)
  ELSE IF n < 10 THEN <<48 + n>>
  ELSE DecimalString(n \div 10) \o <<48 + (n % 10)>>

RECURSIVE JsString(_)
RECURSIVE JsJoin(_)
\* Array.prototype.join: the elements' strings with "," between them; the
\* string of an element that is undefined is empty
JsJoin(items) ==
  IF items = <<>> THEN <<>>
  ELSE IF Len(items) = 1
  THEN IF items[1].t = "undefined" THEN <<>> ELSE JsString(items[1])
  ELSE JsJoin(SubSeq(items, 1, Len(items) \div 2)) \o <<44>>
         \o JsJoin(SubSeq(items, Len(items) \div 2 + 1, Len(items)))

\* String(v): of a Buffer its bytes as text, of a 0x-hex string "0x" and
\* its digits, of undefined "undefined"
JsString(v) ==
  CASE v.t = "buffer" -> v.b
    [] v.t = "array" -> JsJoin(v.items)
    [] v.t = "number" -> DecimalString(v.n)
    [] v.t = "hexstring" ->
         <<48, 120>> \o [i \in 1..Len(v.b) |-> IF v.b[i] < 10 THEN 48 + v.b[i] ELSE 87 + v.b[i]]
    [] v.t = "emptystring" -> <<>>
    [] v.t = "undefined" -> <<117, 110, 100, 101, 102, 105, 110, 101, 100>>

\* the length in bytes of the white space character at position i of s, or
\* 0: TAB LF VT FF CR SP, U+00A0, U+1680, U+2000..U+200A, U+2028, U+2029,
\* U+202F, U+205F, U+3000, U+FEFF
WhiteAt(s, i) ==
  IF s[i] \in {9, 10, 11, 12, 13, 32} THEN 1
  ELSE IF i + 1 <= Len(s) /\ s[i] = 194 /\ s[i + 1] = 160 THEN 2
  ELSE IF i + 2 <= Len(s)
          /\ \/ s[i] = 225 /\ s[i + 1] = 154 /\ s[i + 2] = 128
             \/ s[i] = 226 /\ s[i + 1] = 128 /\ s[i + 2] \in (128..138) \cup {168, 169, 175}
             \/ s[i] = 226 /\ s[i + 1] = 129 /\ s[i + 2] = 159
             \/ s[i] = 227 /\ s[i + 1] = 128 /\ s[i + 2] = 128
             \/ s[i] = 239 /\ s[i + 1] = 187 /\ s[i + 2] = 191
       THEN 3
  ELSE 0

\* byte i of s is part of a white space character of s.  No white space
\* character holds the first byte of another behind its own first byte, so
\* the characters found this way do not overlap
InWhite(s, i) == \E j \in {i - 2, i - 1, i} : j >= 1 /\ WhiteAt(s, j) > i - j

\* s without the white space at its start
TrimStart(s) ==
  SubSeq(s, CHOOSE i \in 1..(Len(s) + 1) :
              /\ i > Len(s) \/ ~InWhite(s, i)
              /\ \A j \in 1..(i - 1) : InWhite(s, j),
         Len(s))

\* s without the white space at its end
TrimEnd(s) ==
  SubSeq(s, 1, CHOOSE i \in 0..Len(s) :
                 /\ i = 0 \/ ~InWhite(s, i)
                 /\ \A j \in (i + 1)..Len(s) : InWhite(s, j))

\* the value of a digit character in a base up to 16, or -1
DigitOf(c, base) ==
  IF c \in 48..57 /\ c - 48 < base THEN c - 48
  ELSE IF c \in 97..102 /\ base = 16 THEN c - 87
  ELSE IF c \in 65..70 /\ base = 16 THEN c - 55
  ELSE -1

\* d without its leading zeros
StripZeros(d) ==
  IF \A i \in 1..Len(d) : d[i] = 0 THEN <<>>
  ELSE SubSeq(d, CHOOSE i \in 1..Len(d) : d[i] # 0 /\ \A j \in 1..(i - 1) : d[j] = 0,
              Len(d))

\* the number a sequence of digits denotes, modulo m
RECURSIVE DigitsMod(_, _, _)
DigitsMod(d, base, m) ==
  IF d = <<>> THEN 0
  ELSE (DigitsMod(SubSeq(d, 1, Len(d) - 1), base, m) * base + d[Len(d)]) % m

\* a double holds MantissaBits binary places; a whole number of TopExponent
\* binary places and more is a multiple of 512 as a double
MantissaBits == 53
TopExponent == 61

\* a whole number below 2^64 as four limbs of 16 bits, the most significant
\* first: x * mul + add, for mul and add of at most 10^4
Limb == 2 ^ 16
TimesPlus(x, mul, add) ==
  <<(x[1] * mul + (x[2] * mul + (x[3] * mul + (x[4] * mul + add) \div Limb) \div Limb)
                    \div Limb) % Limb,
    (x[2] * mul + (x[3] * mul + (x[4] * mul + add) \div Limb) \div Limb) % Limb,
    (x[3] * mul + (x[4] * mul + add) \div Limb) % Limb,
    (x[4] * mul + add) % Limb>>

\* a whole number has at most MaxDigits decimal digits here: one of more is
\* a multiple of 512 as a double
MaxDigits == 19

\* digit p of the MaxDigits + 1 digits that d makes with zeros before it,
\* and the number that its digits 4j-3 .. 4j denote
PaddedAt(d, p) ==
  IF p > MaxDigits + 1 - Len(d) THEN d[p - (MaxDigits + 1 - Len(d))] ELSE 0
GroupAt(d, j) ==
  1000 * PaddedAt(d, 4 * j - 3) + 100 * PaddedAt(d, 4 * j - 2)
    + 10 * PaddedAt(d, 4 * j - 1) + PaddedAt(d, 4 * j)

\* the limbs of the number the first 4j of the padded digits denote
RECURSIVE LimbsTo(_, _)
LimbsTo(d, j) ==
  IF j = 0 THEN <<0, 0, 0, 0>> ELSE TimesPlus(LimbsTo(d, j - 1), 10000, GroupAt(d, j))
Limbs(d) == LimbsTo(d, (MaxDigits + 1) \div 4)

\* the number of binary places of x < 2^16
BitLength(x) == Cardinality({j \in 0..15 : x >= 2 ^ j})

\* the exponent k with 2^k <= x < 2^(k+1); -1 for zero
BinaryExponent(x) ==
  IF x[1] > 0 THEN 47 + BitLength(x[1])
  ELSE IF x[2] > 0 THEN 31 + BitLength(x[2])
  ELSE IF x[3] > 0 THEN 15 + BitLength(x[3])
  ELSE BitLength(x[4]) - 1

\* the same for digits in base 2, 8 or 16 without leading zeros
RadixExponent(d, base) ==
  IF d = <<>> THEN -1
  ELSE (IF base = 16 THEN 4 ELSE IF base = 8 THEN 3 ELSE 1) * (Len(d) - 1)
         + Cardinality({j \in 0..3 : d[1] >= 2 ^ j}) - 1

\* low: a whole number modulo 512 that is to be rounded to a multiple of
\* s <= 256, ties to even; sticky: a non-zero fraction follows the number
RoundTo(low, s, sticky) ==
  (low - (low % s)
   + IF \/ 2 * (low % s) > s
        \/ 2 * (low % s) = s /\ (sticky \/ ((low - (low % s)) \div s) % 2 = 1)
     THEN s ELSE 0) % 256

\* HalfPower[t] holds the decimal digits of 2^-t behind the point, nine to
\* a number, the last number filled up with zeros
HalfPower ==
  <<<<500000000>>,
    <<250000000>>,
    <<125000000>>,
    <<62500000>>,
    <<31250000>>,
    <<15625000>>,
    <<7812500>>,
    <<3906250>>,
    <<1953125>>,
    <<976562, 500000000>>,
    <<488281, 250000000>>,
    <<244140, 625000000>>,
    <<122070, 312500000>>,
    <<61035, 156250000>>,
    <<30517, 578125000>>,
    <<15258, 789062500>>,
    <<7629, 394531250>>,
    <<3814, 697265625>>,
    <<1907, 348632812, 500000000>>,
    <<953, 674316406, 250000000>>,
    <<476, 837158203, 125000000>>,
    <<238, 418579101, 562500000>>,
    <<119, 209289550, 781250000>>,
    <<59, 604644775, 390625000>>,
    <<29, 802322387, 695312500>>,
    <<14, 901161193, 847656250>>,
    <<7, 450580596, 923828125>>,
    <<3, 725290298, 461914062, 500000000>>,
    <<1, 862645149, 230957031, 250000000>>,
    <<0, 931322574, 615478515, 625000000>>,
    <<0, 465661287, 307739257, 812500000>>,
    <<0, 232830643, 653869628, 906250000>>,
    <<0, 116415321, 826934814, 453125000>>,
    <<0, 58207660, 913467407, 226562500>>,
    <<0, 29103830, 456733703, 613281250>>,
    <<0, 14551915, 228366851, 806640625>>,
    <<0, 7275957, 614183425, 903320312, 500000000>>,
    <<0, 3637978, 807091712, 951660156, 250000000>>,
    <<0, 1818989, 403545856, 475830078, 125000000>>,
    <<0, 909494, 701772928, 237915039, 62500000>>,
    <<0, 454747, 350886464, 118957519, 531250000>>,
    <<0, 227373, 675443232, 59478759, 765625000>>,
    <<0, 113686, 837721616, 29739379, 882812500>>,
    <<0, 56843, 418860808, 14869689, 941406250>>,
    <<0, 28421, 709430404, 7434844, 970703125>>,
    <<0, 14210, 854715202, 3717422, 485351562, 500000000>>,
    <<0, 7105, 427357601, 1858711, 242675781, 250000000>>,
    <<0, 3552, 713678800, 500929355, 621337890, 625000000>>,
    <<0, 1776, 356839400, 250464677, 810668945, 312500000>>,
    <<0, 888, 178419700, 125232338, 905334472, 656250000>>,
    <<0, 444, 89209850, 62616169, 452667236, 328125000>>,
    <<0, 222, 44604925, 31308084, 726333618, 164062500>>,
    <<0, 111, 22302462, 515654042, 363166809, 82031250>>,
    <<0, 55, 511151231, 257827021, 181583404, 541015625>>>>

\* digit i behind the point of a fraction given by its digits, and of one
\* given nine digits to a number
DigitAt(frac, i) == IF i <= Len(frac) THEN frac[i] ELSE 0
NinthAt(h, i) ==
  IF i > 9 * Len(h) THEN 0
  ELSE (h[((i - 1) \div 9) + 1] \div (10 ^ (8 - ((i - 1) % 9)))) % 10

\* the digits of 1 - 0.frac, for a fraction that is not zero; last is the
\* position of its last digit that is not zero
ComplementTo(frac, last) ==
  [i \in 1..Len(frac) |->
     IF i < last THEN 9 - frac[i] ELSE IF i = last THEN 10 - frac[i] ELSE 0]
Complement(frac) ==
  ComplementTo(frac, CHOOSE i \in 1..Len(frac) :
                       frac[i] # 0 /\ \A j \in (i + 1)..Len(frac) : frac[j] = 0)

\* 0.g < 0.h, or 0.g = 0.h when tie
Below(g, h, n, tie) ==
  \/ \E i \in 1..n : /\ DigitAt(g, i) < NinthAt(h, i)
                     /\ \A j \in 1..(i - 1) : DigitAt(g, j) = NinthAt(h, j)
  \/ tie /\ \A i \in 1..n : DigitAt(g, i) = NinthAt(h, i)

\* a fraction 0.frac behind a whole number whose double keeps t <= 53 binary
\* places of it: TRUE when the nearest double is the next whole number, which
\* is when 1 - 0.frac is less than 2^-(t+1), or equal to it and the tie goes
\* up (ties to even: odd says that the whole number is odd)
RoundsToNext(frac, t, odd) ==
  Below(Complement(frac), HalfPower[t + 1], Len(frac) + t + 1, t >= 1 \/ odd)

\* the low byte of the double nearest to a number, truncated to a whole
\* number.  low: the whole part modulo 512; k: the binary exponent of the
\* whole part, looked at only for a whole part that is big or followed by a
\* fraction; frac: the digits of the fraction
NearestByte(low, big, k, frac) ==
  IF big /\ k >= TopExponent THEN 0
  ELSE IF big /\ k >= MantissaBits
       THEN RoundTo(low, 2 ^ (k - MantissaBits + 1), \E i \in 1..Len(frac) : frac[i] # 0)
  ELSE (low + IF /\ \E i \in 1..Len(frac) : frac[i] # 0
                 /\ RoundsToNext(frac, MantissaBits - 1 - k, low % 2 = 1)
              THEN 1 ELSE 0) % 256

\* the last n of the digits d, or all of them
LastDigits(d, n) == SubSeq(d, IF Len(d) > n THEN Len(d) - n + 1 ELSE 1, Len(d))

\* a literal in base 2, 8 or 16, without its 0x, 0o or 0b
RadixByte(s, base) ==
  IF s = <<>> \/ \E i \in 1..Len(s) : DigitOf(s[i], base) < 0 THEN 0
  ELSE NearestByte(DigitsMod(LastDigits([i \in 1..Len(s) |-> DigitOf(s[i], base)], 9),
                             base, 512),
                   TRUE,
                   RadixExponent(StripZeros([i \in 1..Len(s) |-> DigitOf(s[i], base)]), base),
                   <<>>)

\* the digits a run of decimal digit characters denotes
DecDigits(s) == [i \in 1..Len(s) |-> s[i] - 48]

\* the position of the first character of s from i on that is no decimal
\* digit, Len(s) + 1 when there is none
DigitsEnd(s, i) ==
  CHOOSE j \in i..(Len(s) + 1) :
    /\ j > Len(s) \/ s[j] \notin 48..57
    /\ \A l \in i..(j - 1) : s[l] \in 48..57

\* the number the digits of an exponent denote, or most when it is more
\* than most.  The literal hands on its own length plus MaxDigits + 1: its
\* digits are fewer than that, so with every exponent from there on the
\* number is 0, or has more than MaxDigits digits before the point
ExponentOf(d, most) ==
  IF Len(StripZeros(d)) > 9 \/ DigitsMod(StripZeros(d), 10, 10 ^ 9) > most THEN most
  ELSE DigitsMod(StripZeros(d), 10, 10 ^ 9)

\* the whole number x, given by its limbs, followed by the fraction 0.frac
WholeByte(x, frac) ==
  NearestByte(x[4] % 512, x[1] > 0, BinaryExponent(x), frac)

\* the number m * 10^e10, m without leading zeros
ScaledByte(m, e10) ==
  IF m = <<>> \/ Len(m) + e10 < 0 \/ Len(m) + e10 > MaxDigits THEN 0
  ELSE IF e10 >= 0
       THEN WholeByte(Limbs(m \o [i \in 1..e10 |-> 0]), <<>>)
  ELSE WholeByte(Limbs(SubSeq(m, 1, Len(m) + e10)), SubSeq(m, Len(m) + e10 + 1, Len(m)))

\* an unsigned decimal literal: its whole part ends before intEnd, its
\* fraction before fracEnd, the digits of its exponent stand from expFrom to
\* before expEnd
DecimalParsed(s, intEnd, fracEnd, expFrom, expEnd) ==
  IF /\ intEnd > 1 \/ fracEnd > intEnd + 1
     /\ expFrom > fracEnd => expEnd > expFrom
     /\ expEnd = Len(s) + 1
  THEN ScaledByte(StripZeros(DecDigits(SubSeq(s, 1, intEnd - 1))
                             \o DecDigits(SubSeq(s, intEnd + 1, fracEnd - 1))),
                  (IF expFrom = fracEnd + 2 /\ s[fracEnd + 1] = 45 THEN -1 ELSE 1)
                    * ExponentOf(DecDigits(SubSeq(s, expFrom, expEnd - 1)), Len(s) + MaxDigits + 1)
                  - (IF fracEnd > intEnd THEN fracEnd - intEnd - 1 ELSE 0))
  ELSE 0

DecimalExponent(s, intEnd, fracEnd, expFrom) ==
  DecimalParsed(s, intEnd, fracEnd, expFrom,
                IF expFrom > fracEnd THEN DigitsEnd(s, expFrom) ELSE fracEnd)

DecimalFraction(s, intEnd, fracEnd) ==
  DecimalExponent(s, intEnd, fracEnd,
                  IF fracEnd <= Len(s) /\ s[fracEnd] \in {101, 69}
                  THEN IF fracEnd + 1 <= Len(s) /\ s[fracEnd + 1] \in {43, 45}
                       THEN fracEnd + 2 ELSE fracEnd + 1
                  ELSE fracEnd)

DecimalWhole(s, intEnd) ==
  DecimalFraction(s, intEnd,
                  IF intEnd <= Len(s) /\ s[intEnd] = 46
                  THEN DigitsEnd(s, intEnd + 1) ELSE intEnd)

\* an unsigned StrDecimalLiteral; Infinity and what is no literal give 0
DecimalByte(s) == DecimalWhole(s, DigitsEnd(s, 1))

\* the base the prefix 0x, 0o or 0b names
RadixOf(c) ==
  IF c \in {120, 88} THEN 16 ELSE IF c \in {111, 79} THEN 8
  ELSE IF c \in {98, 66} THEN 2 ELSE 10

Negated(negative, byte) == IF negative THEN (256 - byte) % 256 ELSE byte

\* a trimmed StringNumericLiteral
LiteralByte(s) ==
  IF Len(s) >= 2 /\ s[1] = 48 /\ RadixOf(s[2]) # 10
  THEN RadixByte(SubSeq(s, 3, Len(s)), RadixOf(s[2]))
  ELSE Negated(s # <<>> /\ s[1] = 45,
               DecimalByte(IF s # <<>> /\ s[1] \in {43, 45} THEN Tail(s) ELSE s))

\* ToNumber of a string, stored in a byte: the literal's value truncated,
\* modulo 256; 0 for the empty string, for Infinity and for a string that is
\* no numeric literal
StringToByte(str) == LiteralByte(TrimEnd(TrimStart(str)))

\* Buffer.from(array): ToNumber of every element, stored in a byte
BufferFromArray(items) ==
  [i \in 1..Len(items) |->
     CASE items[i].t = "number" -> items[i].n % 256
       [] items[i].t = "undefined" -> 0
       [] OTHER -> StringToByte(JsString(items[i]))]

\* what toBuffer throws when it is handed a string that is no 0x-prefixed
\* hex string; the string given, here the empty one, ends the message
NotHexMsg ==
  "Cannot convert string to buffer. toBuffer only supports 0x-prefixed hex strings and this string was given: "

\* toBuffer returns the Buffer b; when it throws, throws is TRUE
Returned(b) == [throws |-> FALSE, b |-> b]

\* toBuffer(v).  The import names the module and not its version: hexOnly
\* says that the build's ethereumjs-util refuses a string that is no
\* 0x-prefixed hex string (6.1 and later); 6.0 takes the string's bytes,
\* which are none for the empty string
toBuffer(v, hexOnly) ==
  CASE v.t = "buffer" -> Returned(v.b)
    [] v.t = "number" -> Returned(BytesOfNibbles(padToEven(NibblesOf(v.n))))
    [] v.t = "hexstring" -> Returned(BytesOfNibbles(padToEven(v.b)))
    [] v.t = "emptystring" -> IF hexOnly THEN [throws |-> TRUE, b |-> <<>>] ELSE Returned(<<>>)
    [] v.t = "undefined" -> Returned(<<>>)
    [] v.t = "array" -> Returned(BufferFromArray(v.items))

(***************************************************************************)
(* The trie collaborator (interface Trie).  A trie version is a map from   *)
(* Keys to a value or NoValue; its root is the hash of its content.  The   *)
(* database keeps every version ever written (copy-on-write).              *)
(***************************************************************************)
NoValue == <<>>
EmptyTrie == [k \in Keys |-> NoValue]
TrieVersions == [Keys -> Vals \cup {NoValue}]

TrieRoot(m) ==
  CASE m[<<1>>] = NoValue /\ m[<<2>>] = NoValue -> KECCAK256_RLP
    [] m[<<1>>] = NoValue /\ m[<<2>>] = <<1>> -> Root_01
    [] m[<<1>>] = NoValue /\ m[<<2>>] = <<2>> -> Root_02
    [] m[<<1>>] = <<1>> /\ m[<<2>>] = NoValue -> Root_10
    [] m[<<1>>] = <<1>> /\ m[<<2>>] = <<1>> -> Root_11
    [] m[<<1>>] = <<1>> /\ m[<<2>>] = <<2>> -> Root_12
    [] m[<<1>>] = <<2>> /\ m[<<2>>] = NoValue -> Root_20
    [] m[<<1>>] = <<2>> /\ m[<<2>>] = <<1>> -> Root_21
    [] m[<<1>>] = <<2>> /\ m[<<2>>] = <<2>> -> Root_22

\* the callback arguments (err, value) of a store read
Res(err, found, value) == [err |-> err, found |-> found, value |-> value]

Resolvable(db, root) == root = KECCAK256_RLP \/ \E m \in db : TrieRoot(m) = root

TrieAt(db, root) ==
  IF root = KECCAK256_RLP THEN EmptyTrie ELSE CHOOSE m \in db : TrieRoot(m) = root

\* trie.get(key, cb) on a handle whose root is `root`, the read succeeding
TrieGet(db, root, key) ==
  IF ~Resolvable(db, root) THEN Res("missing node", FALSE, <<>>)
  ELSE LET v == TrieAt(db, root)[key] IN Res("none", v # NoValue, v)

\* the version trie.put(key, val, cb) writes from the version at `root`
TriePut(db, root, key, val) == [TrieAt(db, root) EXCEPT ![key] = val]

\* mutant of TrieCopy: no copy is made, the call works on the handle it was given
TrieCopy_Same(h, s) == h

\* trie.copy(): a handle of its own (the slot's), sharing the database
TrieCopy(h, s) == s

\* trie.getRaw(key, cb), the read succeeding
GetRaw(raw, key) ==
  IF \E p \in raw : p[1] = key
  THEN Res("none", TRUE, (CHOOSE p \in raw : p[1] = key)[2])
  ELSE Res("none", FALSE, <<>>)

\* the flat keyspace after trie.putRaw(key, value, cb) succeeded
PutRaw(raw, key, value) == {p \in raw : p[1] # key} \cup {<<key, value>>}

(***************************************************************************)
(* State.                                                                  *)
(***************************************************************************)
VARIABLES
  acct,     \* [Recs -> props]: this.props of each Account
  troot,    \* [Handles -> root]: the root of each trie handle; 0 is the caller's
  triedb,   \* the trie versions the database holds
  rawdb,    \* the flat keyspace of the database: a set of <<key, value>>
  pending,  \* [Slots -> store call in flight, or Idle]
  last,     \* what the last step delivered to the caller (callback, exception)
  issued,   \* operations issued so far
  shadow,   \* [Recs -> [Keys -> Res]]: storage as the sequential writes define it
  seqOk,    \* [Recs -> BOOLEAN]: only non-overlapping setStorage so far
  hist,     \* what the behaviour has done so far (history, read by the properties only)
  codec     \* the codec on its own: input, record made, serialization, record read back

\* the bridge's state, and all of it
bridge == <<acct, troot, triedb, rawdb, pending, last, issued, shadow, seqOk, hist>>
vars == <<acct, troot, triedb, rawdb, pending, last, issued, shadow, seqOk, hist, codec>>

Handles == {0} \cup Slots

Props(nonce, balance, stateRoot, codeHash) ==
  [nonce |-> nonce, balance |-> balance, stateRoot |-> stateRoot, codeHash |-> codeHash]

DefaultProps == Props(<<>>, <<>>, KECCAK256_RLP, KECCAK256_NULL)

Idle ==
  [op |-> "idle", rec |-> "r1", key |-> <<>>, val |-> <<>>, t |-> 0,
   pre |-> DefaultProps, dirty |-> FALSE]

Call(op, rec, key, val, t) ==
  [op |-> op, rec |-> rec, key |-> key, val |-> val, t |-> t,
   pre |-> acct[rec], dirty |-> FALSE]

NoEvent ==
  [kind |-> "none", op |-> "none", rec |-> "r1", key |-> <<>>, val |-> <<>>,
   nargs |-> 0, err |-> "none", found |-> FALSE, value |-> <<>>,
   storeErr |-> "none", calls |-> 0, pre |-> DefaultProps, dirty |-> FALSE,
   before |-> [r \in Recs |-> DefaultProps], getBefore |-> Res("none", FALSE, <<>>),
   branchRoot |-> <<>>, rawBefore |-> {}, ackedBefore |-> {}, times |-> 0]

\* cb(err, value) invoked by the step that completes call c
Callback(c, nargs, res, storeErr, calls) ==
  [NoEvent EXCEPT !.kind = "callback", !.op = c.op, !.rec = c.rec, !.key = c.key,
                  !.val = c.val, !.nargs = nargs, !.err = res.err,
                  !.found = res.found, !.value = res.value,
                  !.storeErr = storeErr, !.calls = calls, !.pre = c.pre,
                  !.dirty = c.dirty, !.before = acct, !.times = 1]

Throw(op, rec, val, msg) ==
  [NoEvent EXCEPT !.kind = "throw", !.op = op, !.rec = rec, !.val = val,
                  !.err = msg, !.before = acct]

\* no setCode acknowledged for the record
NoCode == [set |-> FALSE, code |-> <<>>]

\* reads: only getCode and getStorage were issued so far; code: the bytes of the
\* record's setCode once the store acknowledged it; acked: the <<bytes, hash>>
\* of every setCode the store acknowledged
HistInit == [reads |-> TRUE, code |-> [r \in Recs |-> NoCode], acked |-> {}]

\* an operation other than getCode and getStorage was issued
Wrote(h) == [h EXCEPT !.reads = FALSE]

HasFree == \E s \in Slots : pending[s] = Idle
FreeSlot == CHOOSE s \in Slots : pending[s] = Idle /\ \A u \in Slots : u < s => pending[u] # Idle

\* the other calls in flight on record r see the record change under them
Dirtied(p, r, s) ==
  [u \in Slots |-> IF u = s THEN Idle
                   ELSE IF p[u].op # "idle" /\ p[u].rec = r
                        THEN [p[u] EXCEPT !.dirty = TRUE] ELSE p[u]]

(***************************************************************************)
(* Account: predicates.                                                    *)
(***************************************************************************)
\* mutant of isContract: the comparison never finds the hashes equal
isContract_Always(props) == TRUE

isContract(props) == props.codeHash # KECCAK256_NULL

isEmpty(props) ==
  props.balance = <<>> /\ props.nonce = <<>> /\ props.codeHash = KECCAK256_NULL

(***************************************************************************)
(* Account: field assignment.                                              *)
(***************************************************************************)
AssignValues == {Num(1), EmptyStr}
RootValues == {Buf(Root_10), Hex(<<1>>), EmptyStr}

\* set nonce(nonce)
SetNonce(r, v) ==
  /\ issued < MaxOps
  /\ issued' = issued + 1
  /\ \E hexOnly \in BOOLEAN :
       IF toBuffer(v, hexOnly).throws
       THEN /\ last' = Throw("set nonce", r, <<>>, NotHexMsg)
            /\ UNCHANGED <<acct, pending>>
       ELSE /\ acct' = [acct EXCEPT ![r].nonce = toBuffer(v, hexOnly).b]
            /\ pending' = Dirtied(pending, r, 0)
            /\ last' = NoEvent
  /\ hist' = Wrote(hist)
  /\ UNCHANGED <<codec, troot, triedb, rawdb, shadow, seqOk>>

\* set balance(balance)
SetBalance(r, v) ==
  /\ issued < MaxOps
  /\ issued' = issued + 1
  /\ \E hexOnly \in BOOLEAN :
       IF toBuffer(v, hexOnly).throws
       THEN /\ last' = Throw("set balance", r, <<>>, NotHexMsg)
            /\ UNCHANGED <<acct, pending>>
       ELSE /\ acct' = [acct EXCEPT ![r].balance = toBuffer(v, hexOnly).b]
            /\ pending' = Dirtied(pending, r, 0)
            /\ last' = NoEvent
  /\ hist' = Wrote(hist)
  /\ UNCHANGED <<codec, troot, triedb, rawdb, shadow, seqOk>>

\* mutant of StateRootAccepted: no length check
StateRootAccepted_Any(b) == TRUE

\* the length check of set stateRoot(stateRoot)
StateRootAccepted(b) == Len(b) = 32

\* set stateRoot(stateRoot)
SetStateRoot(r, v) ==
  /\ issued < MaxOps
  /\ issued' = issued + 1
  /\ \E hexOnly \in BOOLEAN :
       IF toBuffer(v, hexOnly).throws
       THEN /\ last' = Throw("set stateRoot", r, <<>>, NotHexMsg)
            /\ UNCHANGED <<acct, pending, seqOk, shadow>>
       ELSE IF StateRootAccepted(toBuffer(v, hexOnly).b)
       THEN /\ acct' = [acct EXCEPT ![r].stateRoot = toBuffer(v, hexOnly).b]
            /\ pending' = Dirtied(pending, r, 0)
            /\ last' = NoEvent
            /\ seqOk' = [seqOk EXCEPT ![r] = FALSE]
            /\ shadow' = [shadow EXCEPT ![r] = [k \in Keys |-> Res("none", FALSE, <<>>)]]
       ELSE /\ last' = Throw("set stateRoot", r, toBuffer(v, hexOnly).b,
                             "The field stateRoot must be exactly 32 bytes.")
            /\ UNCHANGED <<acct, pending, seqOk, shadow>>
  /\ hist' = Wrote(hist)
  /\ UNCHANGED <<codec, troot, triedb, rawdb>>

\* codeHash has a getter only: an assignment changes nothing.  What the
\* caller sees depends on the caller's code, which this repository does not
\* fix: in strict mode the assignment throws a TypeError, in sloppy mode it
\* is silently ignored.
SetCodeHash(r, v) ==
  /\ issued < MaxOps
  /\ issued' = issued + 1
  /\ \E strict \in BOOLEAN :
       last' = IF strict
               THEN Throw("set codeHash", r, <<>>,
                          "Cannot set property codeHash of #<Account> which has only a getter")
               ELSE NoEvent
  /\ hist' = Wrote(hist)
  /\ UNCHANGED <<codec, acct, troot, triedb, rawdb, pending, shadow, seqOk>>

(***************************************************************************)
(* rlp: the encoding of a list of byte strings, and its decoding.          *)
(***************************************************************************)
RECURSIVE BigEndian(_)
BigEndian(n) == IF n < 256 THEN <<n>> ELSE BigEndian(n \div 256) \o <<n % 256>>

rlpEncodeLength(len, offset) ==
  IF len < 56 THEN <<len + offset>>
  ELSE <<offset + 55 + Len(BigEndian(len))>> \o BigEndian(len)

\* a single byte below 0x80 is its own encoding
rlpEncodeString(b) ==
  IF Len(b) = 1 /\ b[1] < 128 THEN b ELSE rlpEncodeLength(Len(b), 128) \o b

RECURSIVE rlpConcat(_)
rlpConcat(items) ==
  IF items = <<>> THEN <<>> ELSE rlpEncodeString(Head(items)) \o rlpConcat(Tail(items))

rlpEncodeList(items) ==
  rlpEncodeLength(Len(rlpConcat(items)), 192) \o rlpConcat(items)

\* input.slice(from, to) and input.slice(from): a slice that reaches past
\* the end of the input is cut at the end
Slice(b, from, to) == SubSeq(b, from + 1, IF to > Len(b) THEN Len(b) ELSE to)
Drop(b, n) == Slice(b, n, Len(b))

\* the number that bytes denote, the most significant first, or most when
\* it is more than most
RECURSIVE LengthUpTo(_, _)
LengthUpTo(b, most) ==
  IF b = <<>> THEN 0
  ELSE LET hi == LengthUpTo(SubSeq(b, 1, Len(b) - 1), most) IN
       IF hi > (most - b[Len(b)]) \div 256 THEN most ELSE hi * 256 + b[Len(b)]

\* safeParseInt(hex, 16) of the length bytes: it throws on a leading zero
\* byte, and is NaN for no bytes at all.  n is the length, or most when the
\* length is more than most: _decode hands on the length of its input, and
\* with every length from there on it throws, since it takes the length
\* bytes and then length bytes more from the input
safeParseInt(b, most) ==
  [throws |-> b # <<>> /\ b[1] = 0,
   nan |-> b = <<>>,
   n |-> LengthUpTo(b, most)]

Decoded(data, remainder) == [st |-> "ok", data |-> data, remainder |-> remainder]
DecodeThrows == [st |-> "throw", data |-> Buf(<<>>), remainder |-> <<>>]
\* the loop over the items of a list makes no progress and never ends
DecodeHangs == [st |-> "hang", data |-> Buf(<<>>), remainder |-> <<>>]

\* the rlp module's _decode of the item at the head of a non-empty input,
\* and its loop over the payload of a list, after rlp 2.2.x (src/ names the
\* module and not its version).  An item is a Buffer or a list of items.  A
\* truncated short item decodes to what is there; a long form whose length
\* starts with a zero byte throws.
RECURSIVE rlp_decode(_)
RECURSIVE rlpDecodeTake(_, _)
\* the loop over the payload of a list, for at most k rounds: a round takes
\* the item at the head of innerRemainder, and the loop ends when nothing is
\* left.  The rounds are run as two halves, one after the other
rlpDecodeTake(innerRemainder, k) ==
  IF innerRemainder = <<>> THEN Decoded(List(<<>>), <<>>)
  ELSE IF k = 1
  THEN LET d == rlp_decode(innerRemainder) IN
       IF d.st # "ok" THEN d
       ELSE IF d.remainder = innerRemainder THEN DecodeHangs
       ELSE Decoded(List(<<d.data>>), d.remainder)
  ELSE LET first == rlpDecodeTake(innerRemainder, k \div 2) IN
       IF first.st # "ok" THEN first
       ELSE LET rest == rlpDecodeTake(first.remainder, k - k \div 2) IN
            IF rest.st # "ok" THEN rest
            ELSE Decoded(List(first.data.items \o rest.data.items), rest.remainder)

\* the whole loop: a round that does not hang takes a byte at least, so
\* there are no more rounds than bytes
rlpDecodeItems(innerRemainder) == rlpDecodeTake(innerRemainder, Len(innerRemainder))

rlp_decode(input) ==
  LET firstByte == input[1] IN
  IF firstByte <= 127 THEN Decoded(Buf(<<firstByte>>), Drop(input, 1))
  ELSE IF firstByte <= 183 THEN
    LET length == firstByte - 127
        data == IF firstByte = 128 THEN <<>> ELSE Slice(input, 1, length) IN
    IF length = 2 /\ data # <<>> /\ data[1] < 128 THEN DecodeThrows
    ELSE Decoded(Buf(data), Drop(input, length))
  ELSE IF firstByte <= 191 THEN
    LET llength == firstByte - 182
        length == safeParseInt(Slice(input, 1, llength), Len(input))
        data == Slice(input, llength, length.n + llength) IN
    IF length.throws THEN DecodeThrows
    \* a NaN length: no data, and the whole input is the remainder
    ELSE IF length.nan THEN Decoded(Buf(<<>>), input)
    ELSE IF Len(data) < length.n THEN DecodeThrows
    ELSE Decoded(Buf(data), Drop(input, length.n + llength))
  ELSE IF firstByte <= 247 THEN
    LET length == firstByte - 191
        decoded == rlpDecodeItems(Slice(input, 1, length)) IN
    IF decoded.st # "ok" THEN decoded
    ELSE Decoded(decoded.data, Drop(input, length))
  ELSE
    LET llength == firstByte - 246
        length == safeParseInt(Slice(input, 1, llength), Len(input))
        totalLength == llength + length.n
        decoded == rlpDecodeItems(Slice(input, llength, totalLength)) IN
    IF length.throws THEN DecodeThrows
    \* a NaN length leaves an empty list payload, which throws
    ELSE IF length.nan THEN DecodeThrows
    ELSE IF totalLength > Len(input) THEN DecodeThrows
    ELSE IF Slice(input, llength, totalLength) = <<>> THEN DecodeThrows
    ELSE IF decoded.st # "ok" THEN decoded
    ELSE Decoded(decoded.data, Drop(input, totalLength))

\* what the constructor is handed: data.shape is "undefined", "string" (hex
\* digits in bytes, n = 1 when 0x-prefixed), "buffer", "array", "object",
\* "number", "null", or "throw" for a decode that threw and "hang" for one
\* that never returns
Data(shape, bytes, items, obj, n) ==
  [shape |-> shape, bytes |-> bytes, items |-> items, obj |-> obj, n |-> n]

NoFields ==
  [nonce |-> Undefined, balance |-> Undefined, stateRoot |-> Undefined,
   codeHash |-> Undefined]

DataUndefined == Data("undefined", <<>>, <<>>, NoFields, 0)
DataString(h, prefixed) == Data("string", h, <<>>, NoFields, IF prefixed THEN 1 ELSE 0)
DataBuffer(b) == Data("buffer", b, <<>>, NoFields, 0)
DataArray(items) == Data("array", <<>>, items, NoFields, 0)
DataObject(obj) == Data("object", <<>>, <<>>, obj, 0)
DataNumber(n) == Data("number", <<>>, <<>>, NoFields, n)
DataNull == Data("null", <<>>, <<>>, NoFields, 0)
DataThrow == Data("throw", <<>>, <<>>, NoFields, 0)

\* a decode that never returns
DataHang == Data("hang", <<>>, <<>>, NoFields, 0)

\* rlp.decode(input): an empty input decodes to an empty Buffer, a string to
\* a Buffer, a list to an array of Buffers and arrays; anything left over
\* after the first item throws
rlpDecode(input) ==
  IF input = <<>> THEN DataBuffer(<<>>)
  ELSE LET decoded == rlp_decode(input) IN
       IF decoded.st = "hang" THEN DataHang
       ELSE IF decoded.st = "throw" \/ decoded.remainder # <<>> THEN DataThrow
       ELSE IF decoded.data.t = "array" THEN DataArray(decoded.data.items)
       ELSE DataBuffer(decoded.data.b)

(***************************************************************************)
(* Account: constructor and serialize.                                     *)
(***************************************************************************)
\* one round of the forEach: the switch on i has no break, so case i runs
\* into every case after it
SwitchCase(l, i, value, hexOnly) ==
  [nonce |-> IF i <= 0 THEN Buf(toBuffer(value, hexOnly).b) ELSE l.nonce,
   balance |-> IF i <= 1 THEN Buf(toBuffer(value, hexOnly).b) ELSE l.balance,
   stateRoot |-> IF i <= 2 THEN Buf(toBuffer(value, hexOnly).b) ELSE l.stateRoot,
   codeHash |-> IF i <= 3 THEN Buf(toBuffer(value, hexOnly).b) ELSE l.codeHash]

\* data.forEach((value, i) => ...), in ascending order of i, for items
\* that toBuffer takes
RECURSIVE ForEach(_, _, _, _)
ForEach(l, items, i, hexOnly) ==
  IF i >= Len(items) THEN l
  ELSE ForEach(SwitchCase(l, i, items[i + 1], hexOnly), items, i + 1, hexOnly)

\* the object branch: a field is taken when it is truthy
FromObject(obj, hexOnly) ==
  [nonce |-> IF Truthy(obj.nonce) THEN Buf(toBuffer(obj.nonce, hexOnly).b) ELSE Undefined,
   balance |-> IF Truthy(obj.balance) THEN Buf(toBuffer(obj.balance, hexOnly).b) ELSE Undefined,
   stateRoot |-> IF Truthy(obj.stateRoot) THEN Buf(toBuffer(obj.stateRoot, hexOnly).b)
                 ELSE Undefined,
   codeHash |-> IF Truthy(obj.codeHash) THEN Buf(toBuffer(obj.codeHash, hexOnly).b)
                ELSE Undefined]

\* mutant of WithDefaults: the two default hashes change places
WithDefaults_Swapped(l, hexOnly) ==
  Props(toBuffer(IF Truthy(l.nonce) THEN l.nonce ELSE Hex(<<>>), hexOnly).b,
        toBuffer(IF Truthy(l.balance) THEN l.balance ELSE Hex(<<>>), hexOnly).b,
        IF Truthy(l.stateRoot) THEN toBuffer(l.stateRoot, hexOnly).b ELSE KECCAK256_NULL,
        IF Truthy(l.codeHash) THEN toBuffer(l.codeHash, hexOnly).b ELSE KECCAK256_RLP)

\* this.props = {...}: the defaults; l holds Buffers and undefined
WithDefaults(l, hexOnly) ==
  Props(toBuffer(IF Truthy(l.nonce) THEN l.nonce ELSE Hex(<<>>), hexOnly).b,
        toBuffer(IF Truthy(l.balance) THEN l.balance ELSE Hex(<<>>), hexOnly).b,
        IF Truthy(l.stateRoot) THEN toBuffer(l.stateRoot, hexOnly).b ELSE KECCAK256_RLP,
        IF Truthy(l.codeHash) THEN toBuffer(l.codeHash, hexOnly).b ELSE KECCAK256_NULL)

Made(props) == [ok |-> TRUE, err |-> "none", props |-> props]
Failed(msg) == [ok |-> FALSE, err |-> msg, props |-> DefaultProps]

\* mutant of Validate: codeHash is not checked
Validate_RootOnly(props) ==
  IF Len(props.stateRoot) # 32
  THEN Failed("The field stateRoot must be exactly 32 bytes.")
  ELSE Made(props)

\* // Validate
Validate(props) ==
  IF Len(props.stateRoot) # 32
  THEN Failed("The field stateRoot must be exactly 32 bytes.")
  ELSE IF Len(props.codeHash) # 32
       THEN Failed("The field codeHash must be exactly 32 bytes.")
       ELSE Made(props)

\* new Account(data), with the build's toBuffer (see hexOnly there).  A
\* toBuffer that throws inside the forEach ends the constructor, whatever
\* the rounds before it assigned
Construct(data, hexOnly) ==
  LET d1 == IF data.shape = "string" THEN DataBuffer(BytesOfNibbles(data.bytes)) ELSE data
      d2 == IF d1.shape = "buffer" THEN rlpDecode(d1.bytes) ELSE d1
  IN CASE d2.shape = "throw" -> Failed("invalid rlp")
       [] d2.shape = "hang" -> Failed("rlp.decode does not return")
       [] d2.shape = "array" ->
            IF Len(d2.items) > 4 THEN Failed("wrong number of fields in data")
            ELSE IF \E i \in 1..Len(d2.items) : toBuffer(d2.items[i], hexOnly).throws
                 THEN Failed(NotHexMsg)
            ELSE Validate(WithDefaults(ForEach(NoFields, d2.items, 0, hexOnly), hexOnly))
       [] d2.shape \in {"object", "buffer"} ->
            Validate(WithDefaults(FromObject(d2.obj, hexOnly), hexOnly))
       \* typeof null is 'object': reading data.nonce throws a TypeError,
       \* whose wording is the engine's
       [] d2.shape = "null" -> Failed("TypeError")
       [] d2.shape = "number" /\ d2.n # 0 -> Failed("invalid data")
       [] OTHER -> Validate(WithDefaults(NoFields, hexOnly))

\* mutant of serialize: nonce and balance change places
serialize_Swapped(props) ==
  rlpEncodeList(<<props.balance, props.nonce, props.stateRoot, props.codeHash>>)

\* serialize()
serialize(props) ==
  rlpEncodeList(<<props.nonce, props.balance, props.stateRoot, props.codeHash>>)

\* the codec at rest; hexOnly: the build's toBuffer (see there)
CodecIdle ==
  [pc |-> "idle", hexOnly |-> FALSE, data |-> DataUndefined, made |-> Failed("none"),
   orig |-> DefaultProps, wire |-> <<>>, back |-> Failed("none")]

(***************************************************************************)
(* Account.getCode / Account.setCode.                                      *)
(***************************************************************************)
StoreOutcomes == {"none", "io error"}

\* getCode(trie, cb)
GetCode(r) ==
  /\ issued < MaxOps
  /\ issued' = issued + 1
  /\ IF ~isContract(acct[r])
     THEN /\ last' = Callback(Call("getCode", r, <<>>, <<>>, 0), 2,
                              Res("none", TRUE, <<>>), "none", 0)
          /\ UNCHANGED pending
     ELSE /\ HasFree
          /\ pending' = [pending EXCEPT
                           ![FreeSlot] = Call("getCode", r, acct[r].codeHash, <<>>, 0)]
          /\ last' = NoEvent
  /\ UNCHANGED <<codec, acct, troot, triedb, rawdb, shadow, seqOk, hist>>

\* mutant of ReadCbArgs: a failure is reported in the bridge's own words
ReadCbArgs_Generic(res) == IF res.err # "none" THEN Res("read failed", FALSE, <<>>) ELSE res

\* what the caller's cb receives from a read: the store is handed cb itself
\* (trie.getRaw(codeHash, cb), t.get(key, cb)) and calls it with its answer
ReadCbArgs(res) == res

\* trie.getRaw answers: cb is the caller's own callback
GetRawDone(s, outcome) ==
  LET res == IF outcome = "none" THEN GetRaw(rawdb, pending[s].key)
             ELSE Res(outcome, FALSE, <<>>) IN
  /\ pending[s].op = "getCode"
  /\ last' = Callback(pending[s], 2, ReadCbArgs(res), res.err, 1)
  /\ pending' = [pending EXCEPT ![s] = Idle]
  /\ UNCHANGED <<codec, acct, troot, triedb, rawdb, issued, shadow, seqOk, hist>>

\* setCode(trie, code, cb)
SetCode(r, code) ==
  LET codeHash == keccak256(code) IN
  /\ issued < MaxOps
  /\ issued' = issued + 1
  /\ codeHash # KECCAK256_NULL => HasFree
  /\ acct' = [acct EXCEPT ![r].codeHash = codeHash]
  /\ IF codeHash = KECCAK256_NULL
     THEN /\ last' = Callback(Call("setCode", r, codeHash, code, 0), 2,
                              Res("none", TRUE, <<>>), "none", 0)
          /\ pending' = Dirtied(pending, r, 0)
     ELSE /\ pending' = [Dirtied(pending, r, 0) EXCEPT
                           ![FreeSlot] = Call("setCode", r, codeHash, code, 0)]
          /\ last' = NoEvent
  /\ hist' = [Wrote(hist) EXCEPT !.code[r] = NoCode]
  /\ UNCHANGED <<codec, troot, triedb, rawdb, shadow, seqOk>>

\* mutant of PutRawKey: the code is stored under itself
PutRawKey_Code(codeHash, code) == code

\* the key setCode stores the code under: trie.putRaw(codeHash, code, ...)
PutRawKey(codeHash, code) == codeHash

\* trie.putRaw answers: cb(err, codeHash)
PutRawDone(s, outcome) ==
  /\ pending[s].op = "setCode"
  /\ rawdb' = IF outcome = "none"
              THEN PutRaw(rawdb, PutRawKey(pending[s].key, pending[s].val), pending[s].val)
              ELSE rawdb
  /\ last' = [Callback(pending[s], 2, Res(outcome, TRUE, pending[s].key), outcome, 1)
                EXCEPT !.rawBefore = rawdb, !.ackedBefore = hist.acked]
  /\ pending' = [pending EXCEPT ![s] = Idle]
  /\ hist' = IF outcome # "none" THEN hist
             ELSE [hist EXCEPT
                     !.acked = @ \cup {<<pending[s].val, pending[s].key>>},
                     !.code[pending[s].rec] =
                        IF acct[pending[s].rec].codeHash = keccak256(pending[s].val)
                        THEN [set |-> TRUE, code |-> pending[s].val] ELSE @]
  /\ UNCHANGED <<codec, acct, troot, triedb, issued, shadow, seqOk>>

(***************************************************************************)
(* Account.getStorage / Account.setStorage.                                *)
(***************************************************************************)
\* mutant of BranchRoot: the branch keeps the root of the caller's handle
BranchRoot_FromHandle(props, handleRoot) == handleRoot

\* the root the branch is given: t.root = this.props.stateRoot
BranchRoot(props, handleRoot) == props.stateRoot

\* getStorage(trie, key, cb)
GetStorage(r, key) ==
  /\ issued < MaxOps
  /\ issued' = issued + 1
  /\ HasFree
  /\ LET t == TrieCopy(0, FreeSlot) IN
       /\ troot' = [troot EXCEPT ![t] = BranchRoot(acct[r], troot[0])]
       /\ pending' = [pending EXCEPT ![FreeSlot] = Call("getStorage", r, key, <<>>, t)]
  /\ last' = NoEvent
  /\ UNCHANGED <<codec, acct, triedb, rawdb, shadow, seqOk, hist>>

\* t.get answers: cb is the caller's own callback
TrieGetDone(s, outcome) ==
  LET c == pending[s]
      res == IF outcome = "none" THEN TrieGet(triedb, troot[c.t], c.key)
             ELSE Res(outcome, FALSE, <<>>) IN
  /\ c.op = "getStorage"
  /\ last' = [Callback(c, 2, ReadCbArgs(res), res.err, 1)
                EXCEPT !.branchRoot = troot[c.t]]
  /\ pending' = [pending EXCEPT ![s] = Idle]
  /\ troot' = [troot EXCEPT ![c.t] = IF c.t = 0 THEN @ ELSE KECCAK256_RLP]
  /\ UNCHANGED <<codec, acct, triedb, rawdb, issued, shadow, seqOk, hist>>

\* setStorage(trie, key, val, cb)
SetStorage(r, key, val) ==
  /\ issued < MaxOps
  /\ issued' = issued + 1
  /\ HasFree
  /\ LET t == TrieCopy(0, FreeSlot) IN
       /\ troot' = [troot EXCEPT ![t] = BranchRoot(acct[r], troot[0])]
       /\ pending' = [pending EXCEPT ![FreeSlot] = Call("setStorage", r, key, val, t)]
  /\ last' = NoEvent
  /\ IF \E u \in Slots : pending[u].op = "setStorage" /\ pending[u].rec = r
     THEN /\ seqOk' = [seqOk EXCEPT ![r] = FALSE]
          /\ shadow' = [shadow EXCEPT ![r] = [k \in Keys |-> Res("none", FALSE, <<>>)]]
     ELSE UNCHANGED <<seqOk, shadow>>
  /\ hist' = Wrote(hist)
  /\ UNCHANGED <<codec, acct, triedb, rawdb>>

\* mutants of StateRootAfterPut: the root advanced whatever the outcome; never advanced
StateRootAfterPut_IgnoreErr(props, err, branch) == branch
StateRootAfterPut_Never(props, err, branch) == props.stateRoot

\* the stateRoot the put callback leaves in the record
StateRootAfterPut(props, err, branch) == IF err # "none" THEN props.stateRoot ELSE branch

\* the arguments the put callback hands to the caller's cb: cb() either way
SetStorageCbArgs(err) == <<>>

\* mutant of PutBase: the put starts from the record's stateRoot of the moment
PutBase_Current(handleRoot, props) == props.stateRoot

\* the root t.put(key, val, ...) writes from: the root the copy was given
\* when the call was issued
PutBase(handleRoot, props) == handleRoot

\* mutant of SetStorageCbCount: the error path returns without calling cb
SetStorageCbCount_NoneOnErr(err) == IF err # "none" THEN 0 ELSE 1

\* how often the put callback calls cb: `return cb()` on an error, else the
\* cb() at its end
SetStorageCbCount(err) == 1

\* t.put answers: (err) => { if (err) return cb(); this.props.stateRoot = t.root; cb() }
TriePutDone(s, outcome) ==
  LET c == pending[s]
      base == PutBase(troot[c.t], acct[c.rec])
      err == IF ~Resolvable(triedb, base) THEN "missing node" ELSE outcome
      written == TriePut(triedb, base, c.key, c.val)
      branch == IF err = "none" THEN TrieRoot(written) ELSE base
      newRoot == StateRootAfterPut(acct[c.rec], err, branch)
  IN
  /\ c.op = "setStorage"
  /\ triedb' = IF err = "none" THEN triedb \cup {written} ELSE triedb
  /\ acct' = [acct EXCEPT ![c.rec].stateRoot = newRoot]
  /\ last' = [Callback(c, Len(SetStorageCbArgs(err)), Res("none", FALSE, <<>>), err, 1)
                EXCEPT !.branchRoot = branch,
                       !.getBefore = TrieGet(triedb, acct[c.rec].stateRoot, c.key),
                       !.times = SetStorageCbCount(err)]
  /\ pending' = IF err = "none" THEN Dirtied(pending, c.rec, s)
                ELSE [pending EXCEPT ![s] = Idle]
  /\ troot' = [troot EXCEPT ![c.t] = IF c.t = 0 THEN @ ELSE KECCAK256_RLP]
  /\ IF err = "none" /\ seqOk[c.rec]
     THEN shadow' = [shadow EXCEPT ![c.rec][c.key] = Res("none", TRUE, c.val)]
     ELSE UNCHANGED shadow
  /\ UNCHANGED <<codec, rawdb, issued, seqOk, hist>>

(***************************************************************************)
(* Specification.                                                          *)
(***************************************************************************)
\* the store as earlier calls left it: one trie version and one code
InitTrieDb == {[EmptyTrie EXCEPT ![<<1>>] = <<1>>]}
InitRawDb == {<<KeccakOfCode1, <<96>>>>}

InitData1 ==
  {DataUndefined,
   DataObject([NoFields EXCEPT !.stateRoot = Buf(Root_10), !.codeHash = Buf(KeccakOfCode1)]),
   DataObject([NoFields EXCEPT !.nonce = Num(1), !.stateRoot = Buf(Zero32),
                               !.codeHash = Buf(KeccakOfCode2)])}
InitData2 ==
  {DataUndefined,
   DataObject([NoFields EXCEPT !.stateRoot = Buf(Root_10), !.codeHash = Buf(KeccakOfCode1)])}

Init ==
  /\ \E d1 \in InitData1, d2 \in InitData2, hexOnly \in BOOLEAN :
       acct = [r \in Recs |-> IF r = "r1" THEN Construct(d1, hexOnly).props
                              ELSE Construct(d2, hexOnly).props]
  /\ troot = [h \in Handles |-> KECCAK256_RLP]
  /\ triedb = InitTrieDb
  /\ rawdb = InitRawDb
  /\ pending = [s \in Slots |-> Idle]
  /\ last = NoEvent
  /\ issued = 0
  /\ shadow = [r \in Recs |-> [k \in Keys |-> TrieGet(InitTrieDb, acct[r].stateRoot, k)]]
  /\ seqOk = [r \in Recs |-> TRUE]
  /\ hist = HistInit
  /\ codec = CodecIdle

Next ==
  \/ \E r \in Recs, v \in AssignValues : SetNonce(r, v)
  \/ \E r \in Recs, v \in AssignValues : SetBalance(r, v)
  \/ \E r \in Recs, v \in RootValues : SetStateRoot(r, v)
  \/ \E r \in Recs : SetCodeHash(r, Buf(Zero32))
  \/ \E r \in Recs : GetCode(r)
  \/ \E r \in Recs, code \in Codes : SetCode(r, code)
  \/ \E r \in Recs, k \in Keys : GetStorage(r, k)
  \/ \E r \in Recs, k \in Keys, v \in Vals : SetStorage(r, k, v)
  \/ \E s \in Slots, o \in StoreOutcomes : GetRawDone(s, o)
  \/ \E s \in Slots, o \in StoreOutcomes : PutRawDone(s, o)
  \/ \E s \in Slots, o \in StoreOutcomes : TrieGetDone(s, o)
  \/ \E s \in Slots, o \in StoreOutcomes : TriePutDone(s, o)

Spec == Init /\ [][Next]_vars

\* the store answers a call it was given
Answer ==
  \E s \in Slots, o \in StoreOutcomes :
    GetRawDone(s, o) \/ PutRawDone(s, o) \/ TrieGetDone(s, o) \/ TriePutDone(s, o)

\* the store calls back every callback it was given: while calls are in
\* flight it goes on answering
StoreAnswers == WF_vars(Answer)

\* the four methods that take a callback, and the store's answers
NextCalls ==
  \/ \E r \in Recs : GetCode(r)
  \/ \E r \in Recs, code \in Codes : SetCode(r, code)
  \/ \E r \in Recs, k \in Keys : GetStorage(r, k)
  \/ \E r \in Recs, k \in Keys, v \in Vals : SetStorage(r, k, v)
  \/ \E s \in Slots, o \in StoreOutcomes : GetRawDone(s, o)
  \/ \E s \in Slots, o \in StoreOutcomes : PutRawDone(s, o)
  \/ \E s \in Slots, o \in StoreOutcomes : TrieGetDone(s, o)
  \/ \E s \in Slots, o \in StoreOutcomes : TriePutDone(s, o)

\* a contract with storage and code in the store, and a default record
InitCalls ==
  /\ Init
  /\ acct["r1"].codeHash = KeccakOfCode1
  /\ acct["r2"] = DefaultProps

SpecFair == InitCalls /\ [][NextCalls]_vars /\ StoreAnswers

(***************************************************************************)
(* The codec on its own: construct a record from an input, serialize it,   *)
(* construct a second record from the serialization.                      *)
(***************************************************************************)
Short31 == [i \in 1..31 |-> 7]

\* what an array holds, or a field of an object
ElemValues ==
  {Buf(<<>>), Buf(<<128>>), Num(1), Buf(Zero32), Buf(Ff32), Buf(Short31),
   List(<<Buf(<<53>>)>>)}

\* what a field of an object holds besides: absent, '' and 0
FieldValues == ElemValues \cup {Undefined, EmptyStr, Num(0), Hex(<<3, 8, 4>>)}

\* the encoding of [[], [], <32 x 00>, <32 x ff>]
NestedWire == <<248, 68, 192, 192, 160>> \o Zero32 \o <<160>> \o Ff32

RECURSIVE ArraysOf(_)
ArraysOf(n) == IF n = 0 THEN {<<>>} ELSE ArraysOf(n - 1) \cup [1..n -> ElemValues]

Objects ==
  [nonce : {Undefined, EmptyStr, Num(0), Num(1), Hex(<<3, 8, 4>>)},
   balance : {Undefined, Buf(<<128>>), Hex(<<3, 14, 7>>)},
   stateRoot : FieldValues,
   codeHash : FieldValues]

CodecInputs ==
  {DataUndefined, DataNull, DataNumber(0), DataNumber(5), DataString(<<>>, FALSE),
   DataString(<<12, 0>>, TRUE), DataBuffer(<<>>), DataBuffer(<<128>>),
   DataBuffer(<<194, 1, 2>>), DataBuffer(<<193, 1, 2>>),
   DataBuffer(<<193, 192>>), DataBuffer(<<193, 184>>), DataBuffer(<<129>>),
   DataBuffer(<<184, 0>>), DataBuffer(NestedWire),
   DataArray(<<EmptyStr>>), DataArray(<<EmptyStr, Num(1), Buf(Zero32), Buf(Ff32)>>),
   DataArray(<<Num(1), Buf(<<>>), Buf(Zero32), EmptyStr>>),
   DataArray(<<EmptyStr, Num(1), Buf(Short31), Buf(Ff32)>>),
   DataArray(<<List(<<Num(5)>>), List(<<Hex(<<1, 0>>)>>), Buf(Zero32), Buf(Ff32)>>),
   DataArray(<<List(<<Num(300), Num(0)>>), List(<<Undefined, EmptyStr, Hex(<<>>)>>),
               Buf(Zero32), Buf(Ff32)>>),
   DataArray(<<Num(0 - 1)>>),
   DataArray(<<Num(1), Num(0 - 256), Buf(Zero32), Buf(Ff32)>>),
   DataObject([nonce |-> Num(0 - 1), balance |-> Num(0 - 16),
               stateRoot |-> Undefined, codeHash |-> Undefined])}
    \cup {DataArray(a) : a \in ArraysOf(MaxArrayLen)}
    \cup {DataObject(o) : o \in Objects}

\* new Account(data)
New ==
  /\ codec.pc = "input"
  /\ codec' = [codec EXCEPT !.pc = "made", !.made = Construct(codec.data, codec.hexOnly),
                            !.orig = Construct(codec.data, codec.hexOnly).props]
  /\ UNCHANGED bridge

\* account.serialize()
Serialize ==
  /\ codec.pc = "made"
  /\ codec.made.ok
  /\ codec' = [codec EXCEPT !.pc = "serialized", !.wire = serialize(codec.made.props)]
  /\ UNCHANGED bridge

\* new Account(serialized)
Decode ==
  /\ codec.pc = "serialized"
  /\ codec' = [codec EXCEPT !.pc = "decoded",
                            !.back = Construct(DataBuffer(codec.wire), codec.hexOnly)]
  /\ UNCHANGED bridge

InitCodec ==
  /\ codec \in {[CodecIdle EXCEPT !.pc = "input", !.data = d, !.hexOnly = h] :
                  d \in CodecInputs, h \in BOOLEAN}
  /\ acct = [r \in Recs |-> DefaultProps]
  /\ troot = [h \in Handles |-> KECCAK256_RLP]
  /\ triedb = {}
  /\ rawdb = {}
  /\ pending = [s \in Slots |-> Idle]
  /\ last = NoEvent
  /\ issued = 0
  /\ shadow = [r \in Recs |-> [k \in Keys |-> Res("none", FALSE, <<>>)]]
  /\ seqOk = [r \in Recs |-> TRUE]
  /\ hist = HistInit

NextCodec == New \/ Serialize \/ Decode

SpecCodec == InitCodec /\ [][NextCodec]_vars

(***************************************************************************)
(* Properties.                                                             *)
(***************************************************************************)
StateRootMsg == "The field stateRoot must be exactly 32 bytes."
CodeHashMsg == "The field codeHash must be exactly 32 bytes."

\* the last step invoked the callback of operation op
Completed(op) == last.kind = "callback" /\ last.op = op

\* what getStorage(trie, key, cb) on record r delivers now, the read succeeding
StorageNow(r, key) == TrieGet(triedb, acct[r].stateRoot, key)

\* C1: with non-empty code, record.codeHash is the new hash only after the
\* store acknowledged the putRaw: never while the putRaw is pending, and a
\* failed putRaw leaves codeHash as it was before the call.
C1_CodeHashAfterAck ==
  /\ \A s \in Slots :
       (pending[s].op = "setCode" /\ ~pending[s].dirty
          /\ pending[s].pre.codeHash # pending[s].key)
         => acct[pending[s].rec].codeHash # pending[s].key
  /\ (Completed("setCode") /\ last.storeErr # "none" /\ ~last.dirty)
       => acct[last.rec].codeHash = last.pre.codeHash

\* C2: a failed put leaves record.stateRoot as it was (before the callback,
\* and before the call when nothing else changed the record meanwhile), and
\* getStorage for the key delivers what it delivered before.
C2_FailedPutIsolated ==
  (Completed("setStorage") /\ last.storeErr # "none")
    => /\ acct[last.rec].stateRoot = last.before[last.rec].stateRoot
       /\ ~last.dirty => acct[last.rec].stateRoot = last.pre.stateRoot
       /\ StorageNow(last.rec, last.key) = last.getBefore

C2_Witness ==
  /\ Completed("setStorage")
  /\ last.storeErr = "io error"
  /\ ~last.dirty
  /\ last.getBefore.found

\* the other records that held the root the write branched from
SharedWith(e) ==
  {r \in Recs : r # e.rec /\ e.before[r].stateRoot = e.pre.stateRoot}

C3_Case ==
  /\ Completed("setStorage")
  /\ last.storeErr = "none"
  /\ ~last.dirty
  /\ SharedWith(last) # {}

\* C3 as stated: with r1 and r2 on the same stateRoot, a successful
\* setStorage on r1 changes r1.stateRoot, leaves r2.stateRoot unchanged, and
\* getStorage on r2 still delivers the value the key had at the shared root.
C3_Original ==
  C3_Case
    => /\ acct[last.rec].stateRoot # last.pre.stateRoot
       /\ \A r \in SharedWith(last) :
            /\ acct[r].stateRoot = last.before[r].stateRoot
            /\ StorageNow(r, last.key) = last.getBefore

\* C3 amended: r1.stateRoot becomes the root of the branch after the put,
\* which differs from the shared root exactly when the value written differs
\* from the value the key had there; r2.stateRoot is unchanged and
\* getStorage on r2 still delivers the value the key had at the shared root.
C3_CopyOnWrite ==
  C3_Case
    => /\ acct[last.rec].stateRoot = last.branchRoot
       /\ (acct[last.rec].stateRoot # last.pre.stateRoot) <=> (last.val # last.getBefore.value)
       /\ \A r \in SharedWith(last) :
            /\ acct[r].stateRoot = last.before[r].stateRoot
            /\ StorageNow(r, last.key) = last.getBefore

C3_Witness ==
  /\ C3_Case
  /\ last.getBefore.found
  /\ last.val # last.getBefore.value
  /\ acct[last.rec].stateRoot # last.pre.stateRoot

\* C4: after non-overlapping setStorage calls on a record, getStorage delivers
\* for every key the value of the latest successful write to it, or the value
\* at the record's initial stateRoot; a successful setStorage leaves the root
\* of its branch in record.stateRoot.
C4_SequentialWrites ==
  /\ \A r \in Recs : seqOk[r] => \A k \in Keys : StorageNow(r, k) = shadow[r][k]
  /\ (Completed("getStorage") /\ last.storeErr = "none" /\ ~last.dirty /\ seqOk[last.rec])
       => Res(last.err, last.found, last.value) = shadow[last.rec][last.key]
  /\ (Completed("setStorage") /\ last.storeErr = "none")
       => acct[last.rec].stateRoot = last.branchRoot

C4_Witness ==
  /\ Completed("setStorage")
  /\ last.storeErr = "none"
  /\ seqOk[last.rec]
  /\ acct[last.rec].stateRoot = Root_22

\* what the caller's callback was handed
CbView(e) == <<e.nargs, e.err, e.found, e.value>>

\* C5: when the put fails, what setStorage hands to the caller's callback
\* differs from what it hands over on success, and holds no detail of the
\* store's error.
C5_FailureSignalled ==
  (Completed("setStorage") /\ last.storeErr # "none")
    => /\ CbView(last) # <<Len(SetStorageCbArgs("none")), "none", FALSE, <<>>>>
       /\ last.err # last.storeErr

\* C7: stateRoot and codeHash of every record are 32 bytes long in every
\* reachable state.
C7_HashLengths ==
  \A r \in Recs : Len(acct[r].stateRoot) = 32 /\ Len(acct[r].codeHash) = 32

C7_Witness ==
  /\ last.kind = "throw"
  /\ last.op = "set stateRoot"
  /\ Len(last.val) # 32
  /\ \E r \in Recs : acct[r].stateRoot \notin {KECCAK256_RLP, Root_10, Zero32}

\* C10: setCode with empty code never calls putRaw, leaves hash(empty) in
\* codeHash and hands the empty byte string to the callback; getCode on a
\* record whose codeHash is hash(empty) never calls getRaw and hands over the
\* empty byte string.
C10_EmptyCodeShortcut ==
  /\ \A s \in Slots :
       /\ pending[s].op = "setCode" => pending[s].val # <<>>
       /\ pending[s].op = "getCode" => pending[s].key # KECCAK256_NULL
  /\ (Completed("setCode") /\ last.val = <<>>)
       => /\ last.calls = 0
          /\ acct[last.rec].codeHash = KECCAK256_NULL
          /\ CbView(last) = <<2, "none", TRUE, <<>>>>
  /\ (Completed("getCode") /\ last.pre.codeHash = KECCAK256_NULL)
       => /\ last.calls = 0
          /\ CbView(last) = <<2, "none", TRUE, <<>>>>

C10_Witness ==
  /\ Completed("setCode")
  /\ last.val = <<>>
  /\ last.before[last.rec].codeHash # KECCAK256_NULL

(***************************************************************************)
(* Properties of the codec.                                                *)
(***************************************************************************)
Built == codec.pc = "made"

\* the Buffer that toBuffer returns for v when it returns
Coerced(v) == toBuffer(v, FALSE).b

\* C6: an array of more than 4 elements is refused; an array of n <= 4
\* elements with valid hash lengths gives a record whose field i is element i
\* for i < n and whose other fields are the defaults.
C6_PositionalMapping ==
  (Built /\ codec.data.shape = "array")
    => LET a == codec.data.items
           n == Len(a)
       IN IF n > 4
          THEN ~codec.made.ok /\ codec.made.err = "wrong number of fields in data"
          ELSE ((n >= 3 => Len(Coerced(a[3])) = 32) /\ (n >= 4 => Len(Coerced(a[4])) = 32))
                 => codec.made =
                      Made(Props(IF n >= 1 THEN Coerced(a[1]) ELSE <<>>,
                                 IF n >= 2 THEN Coerced(a[2]) ELSE <<>>,
                                 IF n >= 3 THEN Coerced(a[3]) ELSE KECCAK256_RLP,
                                 IF n >= 4 THEN Coerced(a[4]) ELSE KECCAK256_NULL))

\* the stateRoot and codeHash an array of at most 4 elements or an object
\* supplies, as toBuffer returns them: <<supplied, bytes>>
SuppliedRoot(d) ==
  IF d.shape = "array"
  THEN IF Len(d.items) >= 3 THEN <<TRUE, Coerced(d.items[3])>> ELSE <<FALSE, <<>>>>
  ELSE IF Truthy(d.obj.stateRoot) THEN <<TRUE, Coerced(d.obj.stateRoot)>> ELSE <<FALSE, <<>>>>

SuppliedHash(d) ==
  IF d.shape = "array"
  THEN IF Len(d.items) >= 4 THEN <<TRUE, Coerced(d.items[4])>> ELSE <<FALSE, <<>>>>
  ELSE IF Truthy(d.obj.codeHash) THEN <<TRUE, Coerced(d.obj.codeHash)>> ELSE <<FALSE, <<>>>>

C8_Case ==
  /\ Built
  /\ \/ codec.data.shape = "object"
     \/ codec.data.shape = "array" /\ Len(codec.data.items) <= 4

\* the record made, or the refusal, follows the lengths of the stateRoot and
\* codeHash supplied
LengthRule ==
  LET sr == SuppliedRoot(codec.data)
      ch == SuppliedHash(codec.data)
      badRoot == sr[1] /\ Len(sr[2]) # 32
      badHash == ch[1] /\ Len(ch[2]) # 32
  IN /\ badRoot => (~codec.made.ok /\ codec.made.err = StateRootMsg)
     /\ (badHash /\ ~badRoot) => (~codec.made.ok /\ codec.made.err = CodeHashMsg)
     /\ (sr[1] /\ ch[1] /\ ~badRoot /\ ~badHash)
          => /\ codec.made.ok
             /\ codec.made.props.stateRoot = sr[2]
             /\ codec.made.props.codeHash = ch[2]

HoldsRefused(d, hexOnly) ==
  d.shape = "array" /\ \E i \in 1..Len(d.items) : toBuffer(d.items[i], hexOnly).throws

C8_WitnessRefused ==
  /\ C8_Case
  /\ codec.data = DataArray(<<EmptyStr, Num(1), Buf(Zero32), Buf(Ff32)>>)
  /\ codec.made.err = NotHexMsg

C9_RoundTrip ==
  /\ codec.pc \in {"serialized", "decoded"} => codec.made.props = codec.orig
  /\ codec.pc = "decoded" => codec.back = Made(codec.orig)

C9_Witness ==
  /\ codec.pc = "decoded"
  /\ codec.orig.nonce = <<1>>
  /\ codec.orig.balance = <<128>>
  /\ codec.orig.stateRoot = Zero32
\* C11: a getCode on a record issued after the store acknowledged the record's
\* setCode of non-empty bytes delivers exactly those bytes when its read
\* succeeds; a setCode of bytes the store has acknowledged before hands over
\* the same hash as that earlier call and leaves the code keyspace as it was.
C11_CodeBridge ==
  /\ (/\ Completed("getCode")
      /\ last.storeErr = "none"
      /\ hist.code[last.rec].set
      /\ last.pre.codeHash = keccak256(hist.code[last.rec].code))
       => /\ last.err = "none"
          /\ last.found
          /\ last.value = hist.code[last.rec].code
  /\ (/\ Completed("setCode")
      /\ last.calls = 1
      /\ last.storeErr = "none")
       => \A p \in last.ackedBefore :
            p[1] = last.val => last.value = p[2] /\ rawdb = last.rawBefore

\* a setCode of 0x6000, which the store did not hold, was acknowledged and a
\* getCode issued after it delivered 0x6000
C11_Witness ==
  /\ Completed("getCode")
  /\ last.storeErr = "none"
  /\ hist.code[last.rec] = [set |-> TRUE, code |-> <<96, 0>>]
  /\ last.pre.codeHash = KeccakOfCode2
  /\ last.value = <<96, 0>>

\* the same bytes were set twice, both acknowledged
C11_WitnessTwice ==
  /\ Completed("setCode")
  /\ last.storeErr = "none"
  /\ <<last.val, last.value>> \in last.ackedBefore
  /\ last.val = <<96, 0>>

\* C12: isEmpty() is true exactly when balance and nonce are the empty byte
\* string, codeHash is the hash of the empty string and stateRoot is the hash
\* of the empty trie; a default record whose stateRoot a successful
\* setStorage changed is not empty.
C12_IsEmptyStorageAware ==
  \A r \in Recs :
    isEmpty(acct[r]) <=> /\ acct[r].balance = <<>>
                         /\ acct[r].nonce = <<>>
                         /\ acct[r].codeHash = KECCAK256_NULL
                         /\ acct[r].stateRoot = KECCAK256_RLP

\* an input that is absent or holds nothing: undefined, '', an empty Buffer,
\* [] and {}
EmptyInput(d) ==
  \/ d.shape = "undefined"
  \/ d.shape \in {"string", "buffer"} /\ d.bytes = <<>>
  \/ d.shape = "array" /\ d.items = <<>>
  \/ d.shape = "object" /\ d.obj = NoFields

\* C13: a record constructed from an absent or empty input has empty nonce
\* and balance, stateRoot the hash of the empty trie and codeHash the hash of
\* the empty string; isEmpty() is true and isContract() is false on it.
C13_Defaults ==
  (Built /\ EmptyInput(codec.data))
    => /\ codec.made.ok
       /\ codec.made.props = Props(<<>>, <<>>, KECCAK256_RLP, KECCAK256_NULL)
       /\ isEmpty(codec.made.props)
       /\ ~isContract(codec.made.props)

\* new Account() was called and made a record
C13_Witness ==
  /\ Built
  /\ codec.data = DataUndefined
  /\ codec.made.ok
  /\ isEmpty(codec.made.props)

ReadOps == {"getCode", "getStorage"}

\* C14: getCode and getStorage change no field of the record, neither when
\* issued nor when the store answers, whether the read succeeds or fails; an
\* error of the store reaches the caller's callback as the store gave it.
C14_ReadsPure ==
  /\ \A s \in Slots :
       (pending[s].op \in ReadOps /\ ~pending[s].dirty)
         => acct[pending[s].rec] = pending[s].pre
  /\ (last.kind = "callback" /\ last.op \in ReadOps)
       => /\ acct = last.before
          /\ ~last.dirty => acct[last.rec] = last.pre
          /\ last.err = last.storeErr
          /\ last.nargs = 2

\* a getStorage whose read the store failed, and a getCode likewise
C14_Witness ==
  /\ last.kind = "callback"
  /\ last.op = "getStorage"
  /\ last.storeErr = "io error"
  /\ acct[last.rec].stateRoot = Root_10

C14_WitnessCode ==
  /\ last.kind = "callback"
  /\ last.op = "getCode"
  /\ last.storeErr = "io error"

\* the step is setCode(trie, code, cb) on record r
StepSetCode(r) == \E code \in Codes : SetCode(r, code)

\* the step is the put callback of a setStorage on record r, the put succeeding
StepPutDone(r) ==
  \E s \in Slots : pending[s].rec = r /\ TriePutDone(s, "none")

\* C15 as stated: no step changes nonce or balance, codeHash changes only in
\* a setCode step and stateRoot only in the put callback of a setStorage.
C15_Original ==
  [][\A r \in Recs :
       /\ acct'[r].nonce = acct[r].nonce
       /\ acct'[r].balance = acct[r].balance
       /\ acct'[r].codeHash # acct[r].codeHash => StepSetCode(r)
       /\ acct'[r].stateRoot # acct[r].stateRoot => StepPutDone(r)]_vars

\* C15, amended: a step that changes a record is a setCode on it, changing
\* its codeHash only, or the put callback of a successful setStorage on it,
\* changing its stateRoot only, or an assignment to its nonce, balance or
\* stateRoot (of a value 32 bytes long), changing that field only; getCode,
\* getStorage and a failed put change nothing.
C15_FieldFrame ==
  [][\A r \in Recs :
       acct'[r] # acct[r]
         => \/ /\ \E v \in AssignValues : SetNonce(r, v)
               /\ acct' = [acct EXCEPT ![r].nonce = acct'[r].nonce]
            \/ /\ \E v \in AssignValues : SetBalance(r, v)
               /\ acct' = [acct EXCEPT ![r].balance = acct'[r].balance]
            \/ /\ \E v \in RootValues : SetStateRoot(r, v) /\ Len(Coerced(v)) = 32
               /\ acct' = [acct EXCEPT ![r].stateRoot = acct'[r].stateRoot]
            \/ /\ StepSetCode(r)
               /\ acct' = [acct EXCEPT ![r].codeHash = acct'[r].codeHash]
            \/ /\ StepPutDone(r)
               /\ acct' = [acct EXCEPT ![r].stateRoot = acct'[r].stateRoot]]_vars

\* an assignment changed the nonce of the second record, constructed without one
C15_Witness ==
  /\ acct["r2"].nonce = <<1>>
  /\ issued >= 1
  /\ last.kind = "none"

\* what a read delivers when it is the only call in flight, the store
\* answering with `outcome`: a function of the record and the store alone
AloneResult(op, props, key, outcome) ==
  IF op = "getCode"
  THEN IF ~isContract(props) THEN Res("none", TRUE, <<>>)
       ELSE IF outcome # "none" THEN Res(outcome, FALSE, <<>>)
       ELSE GetRaw(rawdb, props.codeHash)
  ELSE IF outcome = "io error" THEN Res(outcome, FALSE, <<>>)
       ELSE TrieGet(triedb, props.stateRoot, key)

\* C16: while only getCode and getStorage calls have been issued, on one
\* record or several, whatever the order of the store's answers: each call
\* delivers what it would deliver alone, and no record is changed.
C16_ConcurrentReads ==
  hist.reads =>
    /\ \A s \in Slots :
         pending[s].op # "idle"
           => /\ pending[s].op \in ReadOps
              /\ ~pending[s].dirty
              /\ pending[s].pre = acct[pending[s].rec]
    /\ last.kind = "callback"
         => /\ last.op \in ReadOps
            /\ acct = last.before
            /\ ~last.dirty
            /\ acct[last.rec] = last.pre
            /\ <<last.err, last.found, last.value>>
                 = LET a == AloneResult(last.op, acct[last.rec], last.key,
                                        IF last.storeErr = "io error" THEN "io error"
                                        ELSE "none")
                   IN <<a.err, a.found, a.value>>

\* two getStorage calls on records with different roots were in flight
\* together, and the store answered the one issued second first
C16_Witness ==
  /\ hist.reads
  /\ Completed("getStorage")
  /\ last.storeErr = "none"
  /\ pending[2] = Idle
  /\ pending[1].op = "getStorage"
  /\ pending[1].rec # last.rec
  /\ pending[1].pre.stateRoot # last.pre.stateRoot
  /\ pending[1].key = last.key

\* the record's stateRoot changed between the issue of the completed call
\* and its completion
C17_Overlapped ==
  /\ Completed("setStorage")
  /\ last.storeErr = "none"
  /\ last.before[last.rec].stateRoot # last.pre.stateRoot

\* C17: a successful setStorage leaves the record at the root of its put on
\* the stateRoot the record had when the call was issued; every other key
\* reads as it did at that root, so what a call completing in between wrote
\* to another key is not seen.
C17_LostUpdate ==
  (Completed("setStorage") /\ last.storeErr = "none")
    => /\ Resolvable(triedb, last.pre.stateRoot)
       /\ acct[last.rec].stateRoot
            = TrieRoot(TriePut(triedb, last.pre.stateRoot, last.key, last.val))
       /\ \A k \in Keys \ {last.key} :
            /\ StorageNow(last.rec, k) = TrieGet(triedb, last.pre.stateRoot, k)
            /\ (/\ C17_Overlapped
                /\ TrieGet(triedb, last.before[last.rec].stateRoot, k)
                      # TrieGet(triedb, last.pre.stateRoot, k))
                 => StorageNow(last.rec, k)
                      # TrieGet(triedb, last.before[last.rec].stateRoot, k)

\* from {01 -> 01} two calls were issued: one wrote 02 -> 02 and completed,
\* then the other, writing 01 -> 02, completed and the record lost 02 -> 02
C17_Witness ==
  /\ C17_Overlapped
  /\ last.pre.stateRoot = Root_10
  /\ last.before[last.rec].stateRoot = Root_12
  /\ acct[last.rec].stateRoot = Root_20
  /\ ~StorageNow(last.rec, <<2>>).found

StorageOps == {"getStorage", "setStorage"}

\* C18: getStorage and setStorage leave the root of the handle the caller
\* passed in as it was; a call in flight works on a handle of its own, whose
\* root it set to the record's stateRoot.
C18_CallerHandleKept ==
  /\ troot[0] = KECCAK256_RLP
  /\ \A s \in Slots :
       pending[s].op \in StorageOps
         => /\ pending[s].t # 0
            /\ troot[pending[s].t] = pending[s].pre.stateRoot

\* a setStorage on a record whose stateRoot is not the root of the caller's
\* handle completed and moved the record on
C18_Witness ==
  /\ Completed("setStorage")
  /\ last.storeErr = "none"
  /\ last.pre.stateRoot = Root_10
  /\ acct[last.rec].stateRoot = Root_12
  /\ troot[0] # acct[last.rec].stateRoot

\* the paths that answer without the store: getCode on a record that is no
\* contract, setCode of empty code
Shortcut(e) ==
  \/ e.op = "getCode" /\ ~isContract(e.pre)
  \/ e.op = "setCode" /\ e.val = <<>>

\* C19: the store answering every call it is given, each getCode, setCode,
\* getStorage and setStorage issued comes to invoke the caller's callback,
\* once, having made one store call, or none on the two shortcut paths: a
\* callback is invoked once by the step that invokes it, and whenever calls
\* are in flight there comes a state where all of them have called back.
C19_CallbackOnce ==
  /\ [](last.kind = "callback"
          => /\ last.times = 1
             /\ last.calls = IF Shortcut(last) THEN 0 ELSE 1)
  /\ (\E s \in Slots : pending[s].op # "idle")
       ~> (\A s \in Slots : pending[s].op = "idle")

\* all the calls issued have answered, the last one a setStorage whose put failed
C19_Witness ==
  /\ Completed("setStorage")
  /\ last.storeErr = "io error"
  /\ last.times = 1
  /\ issued = MaxOps
  /\ \A s \in Slots : pending[s].op = "idle"
====
